---------------------------- MODULE Spec2Model ----------------------------
(***************************************************************************)
(* A model of regolith-displayd: the DisplayManager store, the             *)
(* org.gnome.Mutter.DisplayConfig handlers GetCurrentState and             *)
(* ApplyMonitorsConfig of DisplayServer, the watch_changes loop, the       *)
(* kanshi profile directory and the sway output list the daemon polls.     *)
(*                                                                         *)
(* Text is a sequence of one-character strings, so that formatting,        *)
(* replacing, joining and byte-wise ordering are computed as the code      *)
(* computes them.  A handler runs under the manager lock from its first    *)
(* line to its return, so in Spec one handler run is one step; SpecLocks   *)
(* takes the same runs apart at their await points, with the lock.         *)
(***************************************************************************)
EXTENDS Integers, Sequences, FiniteSets, TLC

VARIABLES
    outputs,                    \* what sway's get_outputs() returns now
    manager,                    \* the DisplayManager behind Arc<Mutex<..>>
    prev_monitor_set,           \* watch_changes: local HashSet<Monitor>
    prev_logical_monitor_set,   \* watch_changes: local HashSet<LogicalMonitor>
    watcher,                    \* the watch_changes task: "running" | "panicked"
    files,                      \* the profile directory: file name -> lines
    signals,                    \* MonitorsChanged signals on the bus, not yet delivered
    client,                     \* the snapshot the client last got from GetCurrentState
    reply,                      \* the operation that just ran and how it ended,
                                \* until that is delivered; Idle otherwise
    nops,                       \* operations run so far
    hasher,                     \* watch_changes: whether the keys of the two
                                \* remembered HashSets make equal elements of
                                \* different hash collide
    threads                     \* SpecLocks: who holds the manager lock and
                                \* where the watcher and the handler stand

vars == <<outputs, manager, prev_monitor_set, prev_logical_monitor_set,
          watcher, files, signals, client, reply, nops, hasher, threads>>

---------------------------------------------------------------------------
(* Bounds of the model *)

\* longest desiredLogicalMonitors list a request carries
MaxEntries == 2
\* operations (handler runs, watcher cycles, compositor changes) in one run
MaxOps == 3

\* the number of calls made while the tasks are followed lock by lock
MaxCalls == 2

---------------------------------------------------------------------------
(* Text *)

\* Option<T>: None, or Some(v)
None == <<>>
Some(v) == <<v>>
\* Option::unwrap on a Some
Unwrap(opt) == opt[1]

\* the byte of a character, for the ordering of String keys in sort_by_key
Code(c) ==
    CASE c = " " -> 32
      [] c = "-" -> 45
      [] c = "1" -> 49
      [] c = "2" -> 50
      [] c = "A" -> 65
      [] c = "X" -> 88
      [] c = "Y" -> 89
      [] c = "_" -> 95
      [] OTHER -> 127

\* String's Ord: byte-wise lexicographic, a proper prefix first
RECURSIVE StrLess(_, _)
StrLess(a, b) ==
    IF b = <<>> THEN FALSE
    ELSE IF a = <<>> THEN TRUE
    ELSE IF Code(Head(a)) # Code(Head(b)) THEN Code(Head(a)) < Code(Head(b))
    ELSE StrLess(Tail(a), Tail(b))

\* str.replace(" ", "_")
ReplaceSpaces(s) == [i \in DOMAIN s |-> IF s[i] = " " THEN "_" ELSE s[i]]

\* Vec<String>::join("__")
RECURSIVE Join(_)
Join(names) ==
    IF names = <<>> THEN <<>>
    ELSE IF Len(names) = 1 THEN names[1]
    ELSE names[1] \o <<"_", "_">> \o Join(Tail(names))

\* format!("{} {} {}", a, b, c)
Format3(a, b, c) == a \o <<" ">> \o b \o <<" ">> \o c

---------------------------------------------------------------------------
(* MonitorTransform: the enum is its discriminant 0..7 *)

Normal == 0
Left == 1
Down == 2
Right == 3
Flipped == 4
FlippedLeft == 5
FlippedDown == 6
FlippedRight == 7

MonitorTransform == {Normal, Left, Down, Right,
                     Flipped, FlippedLeft, FlippedDown, FlippedRight}

\* MonitorTransform::from_u32 (num::FromPrimitive)
from_u32(transform) ==
    IF transform \in MonitorTransform THEN Some(transform) ELSE None

\* MonitorTransform::from_sway (sway_transform: &Option<String>)
from_sway(sway_transform) ==
    CASE sway_transform = Some("90") -> Left
      [] sway_transform = Some("180") -> Down
      [] sway_transform = Some("270") -> Right
      [] sway_transform = Some("flipped") -> Flipped
      [] sway_transform = Some("flipped-90") -> FlippedLeft
      [] sway_transform = Some("flipped-180") -> FlippedDown
      [] sway_transform = Some("flipped-270") -> FlippedRight
      [] OTHER -> Normal

\* MonitorTransform::to_sway
to_sway(self) ==
    CASE self = Normal -> "normal"
      [] self = Right -> "90"
      [] self = Down -> "180"
      [] self = Left -> "270"
      [] self = Flipped -> "flipped"
      [] self = FlippedRight -> "flipped-90"
      [] self = FlippedDown -> "flipped-180"
      [] self = FlippedLeft -> "flipped-270"

---------------------------------------------------------------------------
(* What sway reports: swayipc Output records *)

\* swayipc Mode {width, height, refresh (mHz)}
Mode1080 == [width |-> 1920, height |-> 1080, refresh |-> 60000]
Mode720 == [width |-> 1280, height |-> 720, refresh |-> 60000]

\* (make, model, serial) of the two kinds of panel that get plugged in
PanelA == [make |-> <<"A">>, model |-> <<"X">>, serial |-> <<"1">>]
PanelB == [make |-> <<"A", "-", "X">>, model |-> <<"Y">>, serial |-> <<"2">>]

SwayOutput(name, panel, current_mode, active, scale, transform, x) ==
    [name |-> name, make |-> panel.make, model |-> panel.model,
     serial |-> panel.serial, modes |-> <<Mode1080, Mode720>>,
     current_mode |-> current_mode, active |-> active, scale |-> scale,
     transform |-> transform, rect |-> [x |-> x, y |-> 0],
     primary |-> FALSE]

\* the outputs sway reports: a panel on DP-1 (on, switched to its other
\* mode, or switched off), and on DP-2 either a second panel of the same
\* make, model and serial mirroring DP-1, or a different panel
DP1 == SwayOutput("DP-1", PanelA, Some(Mode1080), TRUE, Some(1), Some("normal"), 0)
DP1Mode720 == SwayOutput("DP-1", PanelA, Some(Mode720), TRUE, Some(1), Some("normal"), 0)
DP1Off == SwayOutput("DP-1", PanelA, None, FALSE, None, None, 0)
DP2Twin == SwayOutput("DP-2", PanelA, Some(Mode1080), TRUE, None, None, 0)
DP2Other == SwayOutput("DP-2", PanelB, Some(Mode720), TRUE, Some(2), Some("90"), 1920)

\* the lists get_outputs() can return
OutputLists ==
    { <<>>, <<DP1>>, <<DP1Mode720>>, <<DP1, DP2Twin>>, <<DP1Off, DP2Other>> }

---------------------------------------------------------------------------
(* modes.rs, monitor.rs: the records built from an Output *)

\* format!("{}x{}@{}Hz", width, height, refresh as f64 / 1000f64): the text,
\* kept as its parts (refresh stays in mHz)
ModeIdText(width, height, refresh) == <<width, "x", height, "@", refresh, "Hz">>

\* Modes::is_current_mode
is_current_mode(actual, current) ==
    /\ current.height = actual.height
    /\ current.width = actual.width
    /\ current.refresh = actual.refresh

\* Modes::new; a scale f64 is written as the integer it equals (1 is 1.0)
NewModes(output, mode_info) ==
    [id |-> ModeIdText(mode_info.width, mode_info.height, mode_info.refresh),
     width |-> mode_info.width,
     height |-> mode_info.height,
     refresh_rate |-> mode_info.refresh,
     preferred_scale |-> 1,
     supported_scales |-> <<1, 2>>,
     properties |->
        [current |-> Some(IF output.current_mode # None
                          THEN is_current_mode(Unwrap(output.current_mode), mode_info)
                          ELSE FALSE),
         preferred |-> Some(FALSE),
         interlaced |-> Some(FALSE)]]

\* Modes::is_valid_scale
is_valid_scale(self, scale) ==
    \E i \in DOMAIN self.supported_scales : self.supported_scales[i] = scale

\* Modes::current
current(self) == self.properties.current = Some(TRUE)

\* Monitor::new (with MonitorProperties::new: the display name and is-builtin)
NewMonitor(output) ==
    [description |-> <<output.name, output.make, output.model, output.serial>>,
     modes |-> [i \in DOMAIN output.modes |-> NewModes(output, output.modes[i])],
     properties |->
        [name |-> Some(Format3(output.make, output.model, output.serial)),
         builtin |-> Some(output.name \in {"eDP-1", "eDP-2"})]]

\* Monitor::search_modes: the first mode with that id, or None
search_modes(self, mode_id) ==
    IF \E i \in DOMAIN self.modes : self.modes[i].id = mode_id
    THEN LET i == CHOOSE i \in DOMAIN self.modes :
                    /\ self.modes[i].id = mode_id
                    /\ \A j \in 1..(i - 1) : self.modes[j].id # mode_id
         IN Some(self.modes[i])
    ELSE None

\* Monitor::get_dpy_name
get_dpy_name(self) ==
    Format3(self.description[2], self.description[3], self.description[4])

\* Monitor::get_current_mode
get_current_mode(self) ==
    IF \E i \in DOMAIN self.modes : current(self.modes[i])
    THEN LET i == CHOOSE i \in DOMAIN self.modes :
                    /\ current(self.modes[i])
                    /\ \A j \in 1..(i - 1) : ~current(self.modes[j])
         IN self.modes[i].id
    ELSE <<"Unknown">>

\* LogicalMonitor::new
NewLogicalMonitor(output) ==
    [x_pos |-> output.rect.x,
     y_pos |-> output.rect.y,
     scale |-> IF output.scale # None THEN Unwrap(output.scale) ELSE 1,
     transform |-> from_sway(output.transform),
     primary |-> output.primary,
     monitors |-> <<<<output.name, output.make, output.model, output.serial>>>>]

\* impl PartialEq for Monitor
MonitorEq(a, b) == a.description = b.description

\* impl Hash for Monitor: what is fed to the hasher
MonitorHash(a) == <<a.description, get_current_mode(a)>>

\* impl PartialEq for LogicalMonitor
LogicalMonitorEq(a, b) ==
    /\ a.x_pos = b.x_pos
    /\ a.y_pos = b.y_pos
    /\ a.scale = b.scale
    /\ a.transform = b.transform

\* impl Hash for LogicalMonitor: what is fed to the hasher
LogicalMonitorHash(a) ==
    <<a.y_pos, a.x_pos, a.transform, a.scale * 1000, a.monitors[1]>>

\* the elements of seq that are in keep, in order (Iterator::filter)
RECURSIVE SelectSeqBy(_, _)
SelectSeqBy(seq, keep) ==
    IF seq = <<>> THEN <<>>
    ELSE (IF Head(seq) \in keep THEN <<Head(seq)>> ELSE <<>>)
         \o SelectSeqBy(Tail(seq), keep)

\* get_monitor_info with .filter(|o| o.active) put on the other list
get_monitor_info_FilterMonitors(outs) ==
    [monitors |->
        LET act == SelectSeqBy(outs, {o \in {outs[i] : i \in DOMAIN outs} : o.active})
        IN [i \in DOMAIN act |-> NewMonitor(act[i])],
     logical_monitors |-> [i \in DOMAIN outs |-> NewLogicalMonitor(outs[i])]]

\* DisplayManager::get_monitor_info, when get_outputs() answers: the pair
\* (monitors, logical_monitors); nothing is stored in self
get_monitor_info(outs) ==
    [monitors |-> [i \in DOMAIN outs |-> NewMonitor(outs[i])],
     logical_monitors |->
        LET act == SelectSeqBy(outs, {o \in {outs[i] : i \in DOMAIN outs} : o.active})
        IN [i \in DOMAIN act |-> NewLogicalMonitor(act[i])]]

---------------------------------------------------------------------------
(* monitor.rs: MonitorApply, one entry of a request *)

\* a MonitorApply; monitors holds (connector, mode id) tuples (the third
\* component, a MonitorProperties dict, is never read)
MonitorApply(connector, mode_id, scale, transform) ==
    [x_pos |-> 0, y_pos |-> 0, scale |-> scale, transform |-> transform,
     primary |-> FALSE, monitors |-> <<<<connector, mode_id>>>>]

\* what a handler returns: zbus::fdo::Result<()>, or the unwinding of a panic
Ok == <<"Ok">>
Err(kind, message) == <<"Err", kind, message>>
Panic(message) == <<"Panic", message>>

\* MonitorApply::search_monitor: the first monitor on that connector
search_monitor(self, monitors) ==
    IF \E i \in DOMAIN monitors : monitors[i].description[1] = self.monitors[1][1]
    THEN LET i == CHOOSE i \in DOMAIN monitors :
                    /\ monitors[i].description[1] = self.monitors[1][1]
                    /\ \A j \in 1..(i - 1) :
                           monitors[j].description[1] # self.monitors[1][1]
         IN Some(monitors[i])
    ELSE None

\* MonitorApply::get_modestr
get_modestr(self, monitor) ==
    LET x == search_modes(monitor, self.monitors[1][2])
    IN IF x # None THEN Some(Unwrap(x).id) ELSE None

\* MonitorApply::save_kanshi: the buffer after the call.  A line of the
\* profile is the tuple of its words.
save_kanshi(self, kanshi_file, monitor) ==
    LET dpy_name == get_dpy_name(monitor)
        mode == get_modestr(self, monitor)
        transform == IF from_u32(self.transform) # None
                     THEN Unwrap(from_u32(self.transform))
                     ELSE Normal
    IN IF mode = None THEN kanshi_file
       ELSE Append(kanshi_file,
                   <<"output", dpy_name, "mode", Unwrap(mode),
                     "position", self.x_pos, self.y_pos,
                     "transform", to_sway(transform),
                     "scale", self.scale, "enable">>)

\* MonitorApply::verify
verify(self, monitors) ==
    LET monitor == search_monitor(self, monitors)
    IN IF monitor = None THEN Err("Failed", "Monitor not found")
       ELSE IF get_modestr(self, Unwrap(monitor)) = None
            THEN Err("InvalidArgs", "Invalid position")
       ELSE IF search_modes(Unwrap(monitor), self.monitors[1][2]) = None
            THEN Err("InvalidArgs", "Invalid resolution / refresh rate")
       ELSE IF ~is_valid_scale(Unwrap(search_modes(Unwrap(monitor),
                                                   self.monitors[1][2])),
                               self.scale)
            THEN Err("InvalidArgs", "Invalid scale")
       ELSE IF from_u32(self.transform) = None
            THEN Err("InvalidArgs", "Invalid tranform")
       ELSE Ok

---------------------------------------------------------------------------
(* lib.rs: DisplayManager and DisplayServer *)

\* DisplayManagerProperties::new
NewDisplayManagerProperties ==
    [layout |-> Some(1), support_layout_change |-> Some(TRUE),
     global_scale |-> Some(FALSE), legacy_scale_factor |-> Some(1)]

\* DisplayManager::new
NewDisplayManager ==
    [serial |-> 0, monitors |-> <<>>, logical_monitors |-> <<>>,
     properties |-> NewDisplayManagerProperties]

\* the lazy_static ZBUS_CONNECTION, as run_server leaves it
ZBUS_CONNECTION == Some("org.gnome.Mutter.DisplayConfig")

\* emit_monitors_changed with the error of con.emit_signal dropped instead of
\* propagated by `?`
emit_monitors_changed_ErrorIgnored(connection, sent) ==
    IF connection # None /\ sent
    THEN [result |-> Ok, emitted |-> 1]
    ELSE [result |-> Ok, emitted |-> 0]

\* DisplayManager::emit_monitors_changed: the result and the number of
\* signals sent; sent says whether con.emit_signal succeeds
emit_monitors_changed(connection, sent) ==
    IF connection # None
    THEN IF sent THEN [result |-> Ok, emitted |-> 1]
                 ELSE [result |-> Err("ZBus", "emit_signal"), emitted |-> 0]
    ELSE [result |-> Ok, emitted |-> 0]

\* DisplayManager::get_disabled_monitors (Vec::contains is by PartialEq)
get_disabled_monitors(self, active_mons) ==
    SelectSeqBy(self.monitors,
                {mon \in {self.monitors[i] : i \in DOMAIN self.monitors} :
                    ~\E j \in DOMAIN active_mons : MonitorEq(active_mons[j], mon)})

\* the serial guard written as serial < manager_obj.serial
WrongSerial_OlderOnly(serial, manager_obj) == serial < manager_obj.serial

\* apply_monitors_config, the serial guard: serial != manager_obj.serial
WrongSerial(serial, manager_obj) == serial # manager_obj.serial

\* apply_monitors_config, the closure get_dpy_name, where it does not panic
dpy_name_key(mon, monitors) ==
    ReplaceSpaces(get_dpy_name(Unwrap(search_monitor(mon, monitors))))

\* the closure get_dpy_name panics on mon: self.monitors[0] is out of
\* bounds, or search_monitor(..).unwrap() meets None
NameLookupPanics(mon, monitors) ==
    \/ mon.monitors = <<>>
    \/ search_monitor(mon, monitors) = None

\* slice::sort_by_key(get_dpy_name): a stable sort, here by insertion
RECURSIVE InsertByKey(_, _, _)
InsertByKey(sorted, mon, monitors) ==
    IF sorted = <<>> THEN <<mon>>
    ELSE IF StrLess(dpy_name_key(mon, monitors), dpy_name_key(Head(sorted), monitors))
         THEN <<mon>> \o sorted
         ELSE <<Head(sorted)>> \o InsertByKey(Tail(sorted), mon, monitors)

\* apply_monitors_config without the line monitors_sorted.sort_by_key(..)
sort_by_key_Unsorted(logical_monitors, monitors) == logical_monitors

RECURSIVE sort_by_key(_, _)
sort_by_key(logical_monitors, monitors) ==
    IF logical_monitors = <<>> THEN <<>>
    ELSE InsertByKey(sort_by_key(SubSeq(logical_monitors, 1,
                                        Len(logical_monitors) - 1), monitors),
                     logical_monitors[Len(logical_monitors)], monitors)

\* apply_monitors_config: profile_name
profile_name(logical_monitors, monitors) ==
    LET monitors_sorted == sort_by_key(logical_monitors, monitors)
    IN Join([i \in DOMAIN monitors_sorted |->
                dpy_name_key(monitors_sorted[i], monitors)])

\* File::options().create(true).write(true).truncate(true).open(path): the
\* directory afterwards; the file exists and is empty
OpenTruncate(dir, name) ==
    [n \in DOMAIN dir \cup {name} |-> IF n = name THEN <<>> ELSE dir[n]]

\* profile_file.write(&profile_buf) on the file just opened
WriteFile(dir, name, buf) ==
    [n \in DOMAIN dir \cup {name} |-> IF n = name THEN buf ELSE dir[n]]

\* apply_monitors_config appending to the profile file instead of
\* truncating it: File::options().create(true).append(true)
PersistProfile_Append(dir, name, buf) ==
    [n \in DOMAIN dir \cup {name} |->
        IF n = name THEN (IF name \in DOMAIN dir THEN dir[name] ELSE <<>>) \o buf
        ELSE dir[n]]

\* apply_monitors_config: the profile directory after the open and a write
\* that succeeds
PersistProfile(dir, name, buf) == WriteFile(OpenTruncate(dir, name), name, buf)

\* the loop of apply_monitors_config with method == 0: the first Err of
\* verify, or Ok
RECURSIVE VerifyLoop(_, _)
VerifyLoop(logical_monitors, monitors) ==
    IF logical_monitors = <<>> THEN Ok
    ELSE IF verify(Head(logical_monitors), monitors) # Ok
         THEN verify(Head(logical_monitors), monitors)
         ELSE VerifyLoop(Tail(logical_monitors), monitors)

\* the loop of apply_monitors_config with method != 0: profile_buf after it
RECURSIVE SaveLoop(_, _, _)
SaveLoop(logical_monitors, monitors, profile_buf) ==
    IF logical_monitors = <<>> THEN profile_buf
    ELSE SaveLoop(Tail(logical_monitors), monitors,
                  save_kanshi(Head(logical_monitors), profile_buf,
                              Unwrap(search_monitor(Head(logical_monitors), monitors))))

\* the lines written for the disabled monitors
RECURSIVE DisableLines(_)
DisableLines(disabled) ==
    IF disabled = <<>> THEN <<>>
    ELSE <<<<"output", get_dpy_name(Head(disabled)), "disable">>>>
         \o DisableLines(Tail(disabled))

\* apply_monitors_config: profile_buf as handed to profile_file.write
ProfileBuf(manager_obj, logical_monitors) ==
    LET active_mons == [i \in DOMAIN logical_monitors |->
                           Unwrap(search_monitor(logical_monitors[i],
                                                 manager_obj.monitors))]
    IN SaveLoop(logical_monitors, manager_obj.monitors, <<<<"profile {">>>>)
       \o DisableLines(get_disabled_monitors(manager_obj, active_mons))
       \o <<<<"}">>>>

\* apply_monitors_config with `?` put on reload_kanshi(): its error returned
AfterWrite_ReloadFatal(io) ==
    IF "reload" \in io THEN [result |-> Err("ZBus", "reload_kanshi"), emitted |-> 0]
    ELSE [result |-> IF "emit" \in io THEN Err("ZBus", "emit_signal") ELSE Ok,
          emitted |-> IF "emit" \in io THEN 0 ELSE 1]

\* apply_monitors_config after the write: reload_kanshi and
\* get_monitor_info, whose errors are logged and whose values are dropped,
\* then emit_monitors_changed, whose error is returned
AfterWrite(io) == emit_monitors_changed(ZBUS_CONNECTION, "emit" \notin io)

\* apply_monitors_config with the serial advanced on an accepted apply
SetProperties_BumpSerial(manager_obj, properties) ==
    [manager_obj EXCEPT !.properties = properties, !.serial = @ + 1]

\* apply_monitors_config: manager_obj.properties = properties, the one
\* assignment the handler makes to the store
SetProperties(manager_obj, properties) ==
    [manager_obj EXCEPT !.properties = properties]

\* DisplayServer::apply_monitors_config, from taking the manager lock to the
\* return: the result, the manager and the profile directory afterwards,
\* the number of MonitorsChanged signals sent, whether the write was passed
\* and which calls to the outside failed.  io is the set of those calls
\* that fail when they are made: opening the profile file ("open"), writing
\* it ("write"), reload_kanshi ("reload"), the sway query ("query"),
\* emit_signal ("emit").  $HOME is taken to be set.
apply_monitors_config(manager_obj, dir, serial, method, logical_monitors, properties, io) ==
    LET same == [result |-> Ok, manager |-> manager_obj, files |-> dir,
                 emitted |-> 0, wrote |-> FALSE, failed |-> {}]
        name == profile_name(logical_monitors, manager_obj.monitors)
        opened == OpenTruncate(dir, name)
        profile_buf == ProfileBuf(manager_obj, logical_monitors)
        set == SetProperties(manager_obj, properties)
        signal == AfterWrite(io)
    IN IF WrongSerial(serial, manager_obj)
       THEN [same EXCEPT !.result = Err("InvalidArgs", "Wrong serial")]
       ELSE IF \E i \in DOMAIN logical_monitors :
                   NameLookupPanics(logical_monitors[i], manager_obj.monitors)
       THEN [same EXCEPT !.result = Panic("get_dpy_name")]
       ELSE IF name = <<>> \/ "open" \in io
       THEN [same EXCEPT !.result = Panic("Error while opening profile file for writing"),
                         !.failed = io \cap {"open"}]
       ELSE IF method = 0
       THEN [same EXCEPT !.result = VerifyLoop(logical_monitors, manager_obj.monitors),
                         !.files = opened]
       ELSE IF "write" \in io
       THEN [result |-> Err("IOError", "write"), manager |-> set,
             files |-> opened, emitted |-> 0, wrote |-> FALSE,
             failed |-> {"write"}]
       ELSE [result |-> signal.result, manager |-> set,
             files |-> PersistProfile(dir, name, profile_buf),
             emitted |-> signal.emitted, wrote |-> TRUE,
             failed |-> io \cap {"reload", "query", "emit"}]

\* HashSet<Monitor>::contains.  Eq and Hash of Monitor disagree (Hash also
\* feeds the current mode), so for an element that is equal but hashes
\* differently the lookup finds it only when the hashes happen to collide.
MonitorSetContains(set, monitor, collide) ==
    \E m \in set : /\ MonitorEq(m, monitor)
                   /\ (MonitorHash(m) = MonitorHash(monitor) \/ collide)

\* HashSet<LogicalMonitor>::contains (Hash also feeds monitors[0])
LogicalMonitorSetContains(set, logical_monitor, collide) ==
    \E m \in set : /\ LogicalMonitorEq(m, logical_monitor)
                   /\ (LogicalMonitorHash(m) = LogicalMonitorHash(logical_monitor)
                       \/ collide)

\* HashSet::insert of each element of seq in turn: an element the set
\* already contains is dropped
RECURSIVE InsertMonitors(_, _, _)
InsertMonitors(set, seq, collide) ==
    IF seq = <<>> THEN set
    ELSE InsertMonitors(IF MonitorSetContains(set, Head(seq), collide)
                        THEN set ELSE set \cup {Head(seq)},
                        Tail(seq), collide)

RECURSIVE InsertLogicalMonitors(_, _, _)
InsertLogicalMonitors(set, seq, collide) ==
    IF seq = <<>> THEN set
    ELSE InsertLogicalMonitors(IF LogicalMonitorSetContains(set, Head(seq), collide)
                               THEN set ELSE set \cup {Head(seq)},
                               Tail(seq), collide)

\* watch_changes with monitors_changed starting out true
monitors_changed_Always(display_info, collide) == TRUE

\* watch_changes: monitors_changed after the two for loops
monitors_changed(display_info, collide) ==
    \/ \E i \in DOMAIN display_info.monitors :
           ~MonitorSetContains(prev_monitor_set, display_info.monitors[i], collide)
    \/ \E i \in DOMAIN display_info.logical_monitors :
           ~LogicalMonitorSetContains(prev_logical_monitor_set,
                                      display_info.logical_monitors[i], collide)

---------------------------------------------------------------------------
(* What clients send *)

ModeId1080 == ModeIdText(1920, 1080, 60000)
ModeId720 == ModeIdText(1280, 720, 60000)
ModeId480 == ModeIdText(640, 480, 60000)

\* the entries requests are made of: well-formed ones for both connectors,
\* and ones that break all rules (mode, scale, transform), the last two or
\* the last one.  Whether a connector is there depends on the store.
EntryUniverse ==
    { MonitorApply("DP-1", ModeId1080, 1, 0),
      MonitorApply("DP-2", ModeId720, 2, 3),
      MonitorApply("DP-1", ModeId480, 3, 8),
      MonitorApply("DP-2", ModeId1080, 3, 8),
      MonitorApply("DP-2", ModeId1080, 1, 8) }

RequestLists == UNION { [1..n -> EntryUniverse] : n \in 0..MaxEntries }

Serials == {0, 1}

\* 0 = verify, 1 = temporary, 2 = persistent
Methods == {0, 1, 2}

PropertySets ==
    { NewDisplayManagerProperties,
      [NewDisplayManagerProperties EXCEPT !.layout = Some(2)] }

\* the sets of failing calls: none, each call alone, and the two whose
\* errors are only logged together
IoOutcomes ==
    { {}, {"open"}, {"write"}, {"emit"}, {"reload"}, {"query"},
      {"reload", "query"} }

\* the ApplyMonitorsConfig calls clients make.  A call whose serial is not
\* the store's is turned away before its list is read: those are drawn with
\* the lists of at most one entry.
Requests ==
    { r \in [serial : Serials, method : Methods,
             logical_monitors : RequestLists, properties : PropertySets] :
        r.serial = 0 \/ Len(r.logical_monitors) <= 1 }

\* a profile left in the directory by an earlier run of the daemon
OldProfileName == <<"A", "_", "X", "_", "1">>
OldProfile ==
    << <<"profile {">>,
       <<"output", <<"A", " ", "X", " ", "1">>, "disable">>,
       <<"}">> >>


InitialDirs == { [n \in {OldProfileName} |-> OldProfile] }

\* the outcome of an operation that is not an ApplyMonitorsConfig call
Ran(op, result) ==
    [op |-> op, serial |-> 0, method |-> 0, logical_monitors |-> <<>>,
     properties |-> NewDisplayManagerProperties, io |-> {}, result |-> result]

Idle == Ran("idle", Ok)

---------------------------------------------------------------------------
(* The state machine *)

\* nobody holds the manager lock, the watcher sleeps, no call is in the handler
ThreadsAtRest ==
    [lock |-> None, sway |-> None, bus |-> None, server |-> "done",
     watcher |-> "sleep", handler |-> "idle", call |-> None, pending |-> None]

\* after main has built the manager and run_server has returned Ok
Init ==
    /\ outputs \in OutputLists
    /\ manager = NewDisplayManager
    /\ prev_monitor_set = {}
    /\ prev_logical_monitor_set = {}
    /\ watcher = "running"
    /\ files \in InitialDirs
    /\ signals = 0
    /\ client = None
    /\ reply = Idle
    /\ nops = 0
    /\ hasher = FALSE
    /\ threads = ThreadsAtRest

\* sway's outputs change: plugging, unplugging, a mode or layout change
SwayOutputsChange ==
    /\ nops < MaxOps
    /\ reply = Idle
    /\ outputs' \in OutputLists \ {outputs}
    /\ reply' = Ran("sway", Ok)
    /\ nops' = nops + 1
    /\ UNCHANGED <<manager, prev_monitor_set, prev_logical_monitor_set,
                   watcher, files, signals, client, hasher, threads>>

\* DisplayServer::get_current_state
GetCurrentState ==
    /\ nops < MaxOps
    /\ reply = Idle
    /\ client' = Some(manager)
    /\ reply' = Ran("GetCurrentState", Ok)
    /\ nops' = nops + 1
    /\ UNCHANGED <<outputs, manager, prev_monitor_set, prev_logical_monitor_set,
                   watcher, files, signals, hasher, threads>>

\* the record of an ApplyMonitorsConfig call r in which the calls io failed
Called(r, io, result) ==
    [op |-> "ApplyMonitorsConfig", serial |-> r.serial, method |-> r.method,
     logical_monitors |-> r.logical_monitors, properties |-> r.properties,
     io |-> io, result |-> result]

\* DisplayServer::apply_monitors_config
ApplyMonitorsConfig ==
    /\ nops < MaxOps
    /\ reply = Idle
    /\ \E r \in Requests, io \in IoOutcomes :
          LET out == apply_monitors_config(manager, files, r.serial, r.method,
                                           r.logical_monitors, r.properties, io)
          IN /\ manager' = out.manager
             /\ files' = out.files
             /\ signals' = signals + out.emitted
             /\ reply' = Called(r, out.failed, out.result)
    /\ nops' = nops + 1
    /\ UNCHANGED <<outputs, prev_monitor_set, prev_logical_monitor_set,
                   watcher, client, hasher, threads>>

\* the client sends the call it has just been answered once more, at once
RepeatApplyMonitorsConfig ==
    /\ nops < MaxOps
    /\ reply.op = "ApplyMonitorsConfig"
    /\ \E io \in IoOutcomes :
          LET out == apply_monitors_config(manager, files, reply.serial,
                                           reply.method, reply.logical_monitors,
                                           reply.properties, io)
          IN /\ manager' = out.manager
             /\ files' = out.files
             /\ signals' = out.emitted
             /\ reply' = [Called(reply, out.failed, out.result)
                             EXCEPT !.op = "ApplyMonitorsConfig again"]
    /\ nops' = nops + 1
    /\ UNCHANGED <<outputs, prev_monitor_set, prev_logical_monitor_set,
                   watcher, client, hasher, threads>>

\* DisplayManager::watch_changes: the body of the loop, from the answer of
\* get_monitor_info to the end of the body.  A failed query panics in
\* unwrap() and a failed emit returns Err into the unwrap() of the spawned
\* task: either ends the task.  keys is the outcome of the hasher keys of
\* the two HashSets built in this turn.
WatchCycle ==
    /\ reply = Idle
    /\ watcher = "running"
    /\ \E query \in BOOLEAN, emit \in BOOLEAN, keys \in BOOLEAN :
          LET display_info == get_monitor_info(outputs)
              signal == emit_monitors_changed(ZBUS_CONNECTION, emit)
          IN IF ~query
             THEN /\ watcher' = "panicked"
                  /\ reply' = Ran("watch_changes", Panic("get_monitor_info"))
                  /\ UNCHANGED <<manager, prev_monitor_set, hasher,
                                 prev_logical_monitor_set, signals>>
             ELSE IF ~monitors_changed(display_info, hasher)
             THEN /\ reply' = Ran("watch_changes", <<"unchanged">>)
                  /\ UNCHANGED <<manager, prev_monitor_set, hasher,
                                 prev_logical_monitor_set, signals, watcher>>
             ELSE /\ prev_monitor_set' =
                         InsertMonitors({}, display_info.monitors, keys)
                  /\ prev_logical_monitor_set' =
                         InsertLogicalMonitors({}, display_info.logical_monitors, keys)
                  /\ hasher' = keys
                  /\ manager' = [manager EXCEPT
                                    !.monitors = display_info.monitors,
                                    !.logical_monitors = display_info.logical_monitors]
                  /\ signals' = signals + signal.emitted
                  /\ IF signal.result = Ok
                     THEN /\ reply' = Ran("watch_changes", <<"changed">>)
                          /\ UNCHANGED watcher
                     ELSE /\ watcher' = "panicked"
                          /\ reply' = Ran("watch_changes", Panic("emit_monitors_changed"))
    /\ UNCHANGED <<outputs, files, client>>

\* DisplayManager::watch_changes: one turn of the loop
WatchChanges ==
    /\ nops < MaxOps
    /\ WatchCycle
    /\ nops' = nops + 1
    /\ UNCHANGED threads

\* the bus delivers the reply and the signals sent; nothing of the daemon
\* depends on them
Deliver ==
    /\ reply # Idle
    /\ reply' = Idle
    /\ signals' = 0
    /\ UNCHANGED <<outputs, manager, prev_monitor_set, prev_logical_monitor_set,
                   watcher, files, client, nops, hasher, threads>>

Next ==
    \/ SwayOutputsChange
    \/ GetCurrentState
    \/ ApplyMonitorsConfig
    \/ RepeatApplyMonitorsConfig
    \/ WatchChanges
    \/ Deliver

Spec == Init /\ [][Next]_vars

---------------------------------------------------------------------------
(* The watcher left to itself: sway changes a bounded number of times, the *)
(* loop of watch_changes turns for ever                                    *)

\* a turn of the loop after the last change of sway's outputs
WatchChangesOn ==
    /\ nops = MaxOps
    /\ WatchCycle
    /\ UNCHANGED <<nops, threads>>

NextWatcher ==
    \/ SwayOutputsChange
    \/ WatchChanges
    \/ WatchChangesOn
    \/ Deliver

\* the loop sleeps 700 ms and turns again as long as the task lives, and the
\* bus delivers what it was given
SpecWatcher ==
    /\ Init
    /\ [][NextWatcher]_vars
    /\ WF_vars(WatchChanges \/ WatchChangesOn)
    /\ WF_vars(Deliver)

---------------------------------------------------------------------------
(* The handlers and the watcher taken apart at their await points, with    *)
(* the tokio Mutex of the manager.  The bus hands the DisplayServer one    *)
(* call at a time (the handlers take &mut self).                           *)

\* lock with the two tasks given a Mutex each (the manager cloned, not the
\* Arc): lock() never waits
lock_granted_NoWait(lock) == TRUE

\* manager.lock().await returns: nobody holds the Mutex
lock_granted(lock) == lock = None

\* the calls the client makes while the watcher runs beside the handler
LockRequests == {r \in Requests : Len(r.logical_monitors) = 1}

\* watch_changes: thread::sleep returns, the task asks for the lock
WatcherWakes ==
    /\ nops < MaxOps
    /\ watcher = "running"
    /\ threads.watcher = "sleep"
    /\ threads' = [threads EXCEPT !.watcher = "wait"]
    /\ nops' = nops + 1
    /\ UNCHANGED <<outputs, manager, prev_monitor_set, prev_logical_monitor_set,
                   watcher, files, signals, client, reply, hasher>>

\* watch_changes: the lock is taken and the query sent to sway
WatcherLocks ==
    /\ threads.watcher = "wait"
    /\ lock_granted(threads.lock)
    /\ threads' = [threads EXCEPT !.watcher = "query", !.lock = Some("watcher")]
    /\ UNCHANGED <<outputs, manager, prev_monitor_set, prev_logical_monitor_set,
                   watcher, files, signals, client, reply, nops, hasher>>

\* watch_changes: sway answers, the rest of the loop body runs and the
\* guard is dropped (at the end of the body, or by the unwinding)
WatcherCycle ==
    /\ threads.watcher = "query"
    /\ WatchCycle
    /\ threads' = [threads EXCEPT !.watcher = "sleep", !.lock = None]
    /\ UNCHANGED nops

\* a GetCurrentState call arrives: get_current_state asks for the lock
CallGetCurrentState ==
    /\ nops < MaxOps
    /\ reply = Idle
    /\ threads.handler = "idle"
    /\ threads' = [threads EXCEPT !.handler = "state_wait"]
    /\ nops' = nops + 1
    /\ UNCHANGED <<outputs, manager, prev_monitor_set, prev_logical_monitor_set,
                   watcher, files, signals, client, reply, hasher>>

\* get_current_state: the lock is taken, the manager cloned, the guard dropped
GetCurrentStateReturns ==
    /\ threads.handler = "state_wait"
    /\ reply = Idle
    /\ lock_granted(threads.lock)
    /\ client' = Some(manager)
    /\ reply' = Ran("GetCurrentState", Ok)
    /\ threads' = [threads EXCEPT !.handler = "idle"]
    /\ UNCHANGED <<outputs, manager, prev_monitor_set, prev_logical_monitor_set,
                   watcher, files, signals, nops, hasher>>

\* an ApplyMonitorsConfig call arrives: apply_monitors_config asks for the lock
CallApplyMonitorsConfig ==
    /\ nops < MaxOps
    /\ reply = Idle
    /\ threads.handler = "idle"
    /\ \E r \in LockRequests :
          threads' = [threads EXCEPT !.handler = "apply_wait", !.call = Some(r)]
    /\ nops' = nops + 1
    /\ UNCHANGED <<outputs, manager, prev_monitor_set, prev_logical_monitor_set,
                   watcher, files, signals, client, reply, hasher>>

\* apply_monitors_config: the lock is taken and the serial compared; the
\* handler returns, or goes on to await get_kanshi_paths()
ApplyLocks ==
    /\ threads.handler = "apply_wait"
    /\ reply = Idle
    /\ lock_granted(threads.lock)
    /\ LET r == Unwrap(threads.call)
       IN IF WrongSerial(r.serial, manager)
          THEN /\ reply' = Called(r, {}, Err("InvalidArgs", "Wrong serial"))
               /\ threads' = [threads EXCEPT !.handler = "idle", !.call = None]
          ELSE /\ threads' = [threads EXCEPT !.handler = "apply_paths",
                                             !.lock = Some("handler")]
               /\ UNCHANGED reply
    /\ UNCHANGED <<outputs, manager, prev_monitor_set, prev_logical_monitor_set,
                   watcher, files, signals, client, nops, hasher>>

\* apply_monitors_config from the profile name to the write and
\* reload_kanshi; the handler returns (dropping the guard), or goes on to
\* await the answer of sway
ApplyWrites ==
    /\ threads.handler = "apply_paths"
    /\ reply = Idle
    /\ \E io \in IoOutcomes :
          LET r == Unwrap(threads.call)
              out == apply_monitors_config(manager, files, r.serial, r.method,
                                           r.logical_monitors, r.properties, io)
          IN /\ manager' = out.manager
             /\ files' = out.files
             /\ IF out.wrote
                THEN /\ threads' = [threads EXCEPT !.handler = "apply_requery",
                                                   !.pending = Some(out)]
                     /\ UNCHANGED reply
                ELSE /\ threads' = [threads EXCEPT !.handler = "idle", !.lock = None,
                                                   !.call = None]
                     /\ reply' = Called(r, out.failed, out.result)
    /\ UNCHANGED <<outputs, prev_monitor_set, prev_logical_monitor_set,
                   watcher, signals, client, nops, hasher>>

\* apply_monitors_config: sway has answered (the answer is dropped), the
\* signal is emitted, the handler returns and the guard is dropped
ApplyReturns ==
    /\ threads.handler = "apply_requery"
    /\ reply = Idle
    /\ LET r == Unwrap(threads.call)
           out == Unwrap(threads.pending)
       IN /\ signals' = signals + out.emitted
          /\ reply' = Called(r, out.failed, out.result)
    /\ threads' = [threads EXCEPT !.handler = "idle", !.lock = None,
                                  !.call = None, !.pending = None]
    /\ UNCHANGED <<outputs, manager, prev_monitor_set, prev_logical_monitor_set,
                   watcher, files, client, nops, hasher>>

NextLocks ==
    \/ SwayOutputsChange
    \/ WatcherWakes
    \/ WatcherLocks
    \/ WatcherCycle
    \/ CallGetCurrentState
    \/ GetCurrentStateReturns
    \/ CallApplyMonitorsConfig
    \/ ApplyLocks
    \/ ApplyWrites
    \/ ApplyReturns
    \/ Deliver

SpecLocks == Init /\ [][NextLocks]_vars

---------------------------------------------------------------------------
(* main, run_server, the handlers and the watcher with the three Mutexes: *)
(* the manager (threads.lock), the sway connection (threads.sway) and     *)
(* ZBUS_CONNECTION (threads.bus).  A guard is dropped where it goes out   *)
(* of scope: at the end of the statement for a temporary, at the return   *)
(* of the function or in the unwinding of a panic otherwise.              *)

\* a guard kept alive past its scope (std::mem::forget): the Mutex stays held
drop_guard_Forgotten(lock, task) == lock

\* the MutexGuard of task goes out of scope
drop_guard(lock, task) == IF lock = Some(task) THEN None ELSE lock

\* the calls the client makes here: a verify and an apply of DP-1, with
\* the serial of the store or another
TaskRequests ==
    {r \in LockRequests :
        /\ r.properties = NewDisplayManagerProperties
        /\ r.method \in {0, 1}
        /\ r.logical_monitors[1] = MonitorApply("DP-1", ModeId1080, 1, 0)}

\* the failures that change the path of the handler
TaskIoOutcomes == { {}, {"open"}, {"write"}, {"emit"} }

\* main before run_server: the manager is built, the watcher not spawned
InitTasks ==
    /\ outputs \in OutputLists
    /\ manager = NewDisplayManager
    /\ prev_monitor_set = {}
    /\ prev_logical_monitor_set = {}
    /\ watcher = "running"
    /\ files \in InitialDirs
    /\ signals = 0
    /\ client = None
    /\ reply = Idle
    /\ nops = 0
    /\ hasher = FALSE
    /\ threads = [ThreadsAtRest EXCEPT !.server = "start", !.watcher = "unspawned"]

\* run_server: self.manager.lock().await
ServerLocks ==
    /\ threads.server = "start"
    /\ lock_granted(threads.lock)
    /\ threads' = [threads EXCEPT !.server = "locked", !.lock = Some("server")]
    /\ UNCHANGED <<outputs, manager, prev_monitor_set, prev_logical_monitor_set,
                   watcher, files, signals, client, reply, nops, hasher>>

\* run_server, in get_monitor_info: sway_connection.lock().await
ServerLocksSway ==
    /\ threads.server = "locked"
    /\ lock_granted(threads.sway)
    /\ threads' = [threads EXCEPT !.server = "query", !.sway = Some("server")]
    /\ UNCHANGED <<outputs, manager, prev_monitor_set, prev_logical_monitor_set,
                   watcher, files, signals, client, reply, nops, hasher>>

\* run_server: sway answers and both temporaries are dropped; the lists are
\* dropped with them.  An error is returned with `?` into the unwrap() of
\* main, which ends the process.
ServerQueried ==
    /\ threads.server = "query"
    /\ \E query \in BOOLEAN :
          threads' = [threads EXCEPT
                         !.server = IF query THEN "bus_wait" ELSE "exited",
                         !.sway = drop_guard(@, "server"),
                         !.lock = drop_guard(@, "server")]
    /\ UNCHANGED <<outputs, manager, prev_monitor_set, prev_logical_monitor_set,
                   watcher, files, signals, client, reply, nops, hasher>>

\* run_server: ZBUS_CONNECTION.lock().await
ServerLocksBus ==
    /\ threads.server = "bus_wait"
    /\ lock_granted(threads.bus)
    /\ threads' = [threads EXCEPT !.server = "build", !.bus = Some("server")]
    /\ UNCHANGED <<outputs, manager, prev_monitor_set, prev_logical_monitor_set,
                   watcher, files, signals, client, reply, nops, hasher>>

\* run_server: the connection is built, the name taken and the interface
\* served; calls can come in from here on
ServerServes ==
    /\ threads.server = "build"
    /\ threads' = [threads EXCEPT !.server = "serving"]
    /\ UNCHANGED <<outputs, manager, prev_monitor_set, prev_logical_monitor_set,
                   watcher, files, signals, client, reply, nops, hasher>>

\* run_server stores the connection and returns, dropping the guard; main
\* spawns the watcher
ServerReturns ==
    /\ threads.server = "serving"
    /\ threads' = [threads EXCEPT !.server = "done", !.watcher = "sleep",
                                  !.bus = drop_guard(@, "server")]
    /\ UNCHANGED <<outputs, manager, prev_monitor_set, prev_logical_monitor_set,
                   watcher, files, signals, client, reply, nops, hasher>>

\* the interface is served and the process lives
Serving == threads.server \in {"serving", "done"}

\* a GetCurrentState call arrives
TaskCallGetCurrentState == Serving /\ nops < MaxCalls /\ CallGetCurrentState

\* get_current_state: the lock is taken, the manager cloned, the guard dropped
TaskGetCurrentStateReturns == Serving /\ GetCurrentStateReturns

\* an ApplyMonitorsConfig call arrives
TaskCallApplyMonitorsConfig ==
    /\ Serving
    /\ nops < MaxCalls
    /\ reply = Idle
    /\ threads.handler = "idle"
    /\ \E r \in TaskRequests :
          threads' = [threads EXCEPT !.handler = "apply_wait", !.call = Some(r)]
    /\ nops' = nops + 1
    /\ UNCHANGED <<outputs, manager, prev_monitor_set, prev_logical_monitor_set,
                   watcher, files, signals, client, reply, hasher>>

\* apply_monitors_config: self.manager.lock().await and the serial guard
TaskApplyLocks ==
    /\ threads.handler = "apply_wait"
    /\ lock_granted(threads.lock)
    /\ LET r == Unwrap(threads.call)
       IN IF WrongSerial(r.serial, manager)
          THEN /\ reply' = Called(r, {}, Err("InvalidArgs", "Wrong serial"))
               /\ threads' = [threads EXCEPT !.handler = "idle", !.call = None]
          ELSE /\ threads' = [threads EXCEPT !.handler = "apply_paths",
                                             !.lock = Some("handler")]
               /\ UNCHANGED reply
    /\ UNCHANGED <<outputs, manager, prev_monitor_set, prev_logical_monitor_set,
                   watcher, files, signals, client, nops, hasher>>

\* apply_monitors_config from the profile name to reload_kanshi: the
\* handler returns or panics, dropping the guard, or goes on to the query
TaskApplyWrites ==
    /\ threads.handler = "apply_paths"
    /\ \E io \in TaskIoOutcomes :
          LET r == Unwrap(threads.call)
              out == apply_monitors_config(manager, files, r.serial, r.method,
                                           r.logical_monitors, r.properties, io)
          IN /\ manager' = out.manager
             /\ files' = out.files
             /\ IF out.wrote
                THEN /\ threads' = [threads EXCEPT !.handler = "apply_sway_wait",
                                                   !.pending = Some(out)]
                     /\ UNCHANGED reply
                ELSE /\ threads' = [threads EXCEPT
                                       !.handler = "idle", !.call = None,
                                       !.lock = drop_guard(@, "handler")]
                     /\ reply' = Called(r, out.failed, out.result)
    /\ UNCHANGED <<outputs, prev_monitor_set, prev_logical_monitor_set,
                   watcher, signals, client, nops, hasher>>

\* apply_monitors_config, in get_monitor_info: sway_connection.lock().await
TaskApplyLocksSway ==
    /\ threads.handler = "apply_sway_wait"
    /\ lock_granted(threads.sway)
    /\ threads' = [threads EXCEPT !.handler = "apply_requery",
                                  !.sway = Some("handler")]
    /\ UNCHANGED <<outputs, manager, prev_monitor_set, prev_logical_monitor_set,
                   watcher, files, signals, client, reply, nops, hasher>>

\* apply_monitors_config: sway answers, the temporary guard is dropped (and
\* the answer with it), emit_monitors_changed is entered
TaskApplyQueried ==
    /\ threads.handler = "apply_requery"
    /\ threads' = [threads EXCEPT !.handler = "apply_bus_wait",
                                  !.sway = drop_guard(@, "handler")]
    /\ UNCHANGED <<outputs, manager, prev_monitor_set, prev_logical_monitor_set,
                   watcher, files, signals, client, reply, nops, hasher>>

\* apply_monitors_config, in emit_monitors_changed: ZBUS_CONNECTION.lock().await
TaskApplyLocksBus ==
    /\ threads.handler = "apply_bus_wait"
    /\ lock_granted(threads.bus)
    /\ threads' = [threads EXCEPT !.handler = "apply_emit",
                                  !.bus = Some("handler")]
    /\ UNCHANGED <<outputs, manager, prev_monitor_set, prev_logical_monitor_set,
                   watcher, files, signals, client, reply, nops, hasher>>

\* apply_monitors_config: the signal is emitted, both guards are dropped
\* and the handler returns
TaskApplyReturns ==
    /\ threads.handler = "apply_emit"
    /\ reply = Idle
    /\ LET r == Unwrap(threads.call)
           out == Unwrap(threads.pending)
       IN /\ signals' = signals + out.emitted
          /\ reply' = Called(r, out.failed, out.result)
    /\ threads' = [threads EXCEPT !.handler = "idle", !.call = None,
                                  !.pending = None,
                                  !.bus = drop_guard(@, "handler"),
                                  !.lock = drop_guard(@, "handler")]
    /\ UNCHANGED <<outputs, manager, prev_monitor_set, prev_logical_monitor_set,
                   watcher, files, client, nops, hasher>>

\* watch_changes: thread::sleep returns, the task asks for the manager
\* lock.  The bus has delivered the signals sent before.
TaskWatcherWakes ==
    /\ watcher = "running"
    /\ threads.watcher = "sleep"
    /\ signals = 0
    /\ threads' = [threads EXCEPT !.watcher = "wait"]
    /\ UNCHANGED <<outputs, manager, prev_monitor_set, prev_logical_monitor_set,
                   watcher, files, signals, client, reply, nops, hasher>>

\* watch_changes, in get_monitor_info: sway_connection.lock().await
TaskWatcherLocksSway ==
    /\ threads.watcher = "query"
    /\ lock_granted(threads.sway)
    /\ threads' = [threads EXCEPT !.watcher = "querying", !.sway = Some("watcher")]
    /\ UNCHANGED <<outputs, manager, prev_monitor_set, prev_logical_monitor_set,
                   watcher, files, signals, client, reply, nops, hasher>>

\* watch_changes: sway answers and the guard of the connection is dropped.
\* An error panics in unwrap(); with nothing new the loop body ends and
\* the guard of the manager is dropped; else the sets and the store are
\* assigned and emit_monitors_changed is entered.
TaskWatcherQueried ==
    /\ threads.watcher = "querying"
    /\ \E query \in BOOLEAN, keys \in BOOLEAN :
          LET display_info == get_monitor_info(outputs)
          IN IF ~query
             THEN /\ watcher' = "panicked"
                  /\ threads' = [threads EXCEPT !.watcher = "dead",
                                                !.sway = drop_guard(@, "watcher"),
                                                !.lock = drop_guard(@, "watcher")]
                  /\ UNCHANGED <<manager, prev_monitor_set, hasher,
                                 prev_logical_monitor_set>>
             ELSE IF ~monitors_changed(display_info, hasher)
             THEN /\ threads' = [threads EXCEPT !.watcher = "sleep",
                                                !.sway = drop_guard(@, "watcher"),
                                                !.lock = drop_guard(@, "watcher")]
                  /\ UNCHANGED <<manager, prev_monitor_set, hasher,
                                 prev_logical_monitor_set, watcher>>
             ELSE /\ prev_monitor_set' =
                         InsertMonitors({}, display_info.monitors, keys)
                  /\ prev_logical_monitor_set' =
                         InsertLogicalMonitors({}, display_info.logical_monitors, keys)
                  /\ hasher' = keys
                  /\ manager' = [manager EXCEPT
                                    !.monitors = display_info.monitors,
                                    !.logical_monitors = display_info.logical_monitors]
                  /\ threads' = [threads EXCEPT !.watcher = "bus_wait",
                                                !.sway = drop_guard(@, "watcher")]
                  /\ UNCHANGED watcher
    /\ UNCHANGED <<outputs, files, signals, client, reply, nops>>

\* watch_changes, in emit_monitors_changed: ZBUS_CONNECTION.lock().await
TaskWatcherLocksBus ==
    /\ threads.watcher = "bus_wait"
    /\ lock_granted(threads.bus)
    /\ threads' = [threads EXCEPT !.watcher = "emit", !.bus = Some("watcher")]
    /\ UNCHANGED <<outputs, manager, prev_monitor_set, prev_logical_monitor_set,
                   watcher, files, signals, client, reply, nops, hasher>>

\* watch_changes: the signal is emitted and the loop body ends, or the
\* error is returned into the unwrap() of the task; the guards are dropped
TaskWatcherEmits ==
    /\ threads.watcher = "emit"
    /\ \E emit \in BOOLEAN :
          LET signal == emit_monitors_changed(ZBUS_CONNECTION, emit)
          IN /\ signals' = signals + signal.emitted
             /\ watcher' = IF signal.result = Ok THEN watcher ELSE "panicked"
             /\ threads' = [threads EXCEPT
                               !.watcher = IF signal.result = Ok THEN "sleep" ELSE "dead",
                               !.bus = drop_guard(@, "watcher"),
                               !.lock = drop_guard(@, "watcher")]
    /\ UNCHANGED <<outputs, manager, prev_monitor_set, prev_logical_monitor_set,
                   files, client, reply, nops, hasher>>

\* the bus delivers the signals of the watcher
SignalsDelivered ==
    /\ reply = Idle
    /\ signals > 0
    /\ signals' = 0
    /\ UNCHANGED <<outputs, manager, prev_monitor_set, prev_logical_monitor_set,
                   watcher, files, client, reply, nops, hasher, threads>>

\* the steps of run_server and main
ServerStep ==
    \/ ServerLocks
    \/ ServerLocksSway
    \/ ServerQueried
    \/ ServerLocksBus
    \/ ServerServes
    \/ ServerReturns

\* the steps of a handler after the call has arrived
HandlerStep ==
    \/ TaskGetCurrentStateReturns
    \/ TaskApplyLocks
    \/ TaskApplyWrites
    \/ TaskApplyLocksSway
    \/ TaskApplyQueried
    \/ TaskApplyLocksBus
    \/ TaskApplyReturns

\* the steps of the watcher task
WatcherStep ==
    \/ TaskWatcherWakes
    \/ WatcherLocks
    \/ TaskWatcherLocksSway
    \/ TaskWatcherQueried
    \/ TaskWatcherLocksBus
    \/ TaskWatcherEmits

NextTasks ==
    \/ ServerStep
    \/ TaskCallGetCurrentState
    \/ TaskCallApplyMonitorsConfig
    \/ HandlerStep
    \/ WatcherStep
    \/ Deliver
    \/ SignalsDelivered

\* the runtime polls every task that can go on, sway and the bus answer,
\* and the tokio Mutex hands the lock to its waiters in the order they came
SpecTasks ==
    /\ InitTasks
    /\ [][NextTasks]_vars
    /\ WF_vars(ServerStep)
    /\ WF_vars(TaskApplyWrites \/ TaskApplyLocksSway \/ TaskApplyQueried
               \/ TaskApplyLocksBus \/ TaskApplyReturns)
    /\ WF_vars(TaskWatcherWakes \/ TaskWatcherLocksSway \/ TaskWatcherQueried
               \/ TaskWatcherLocksBus \/ TaskWatcherEmits)
    /\ SF_vars(TaskGetCurrentStateReturns \/ TaskApplyLocks)
    /\ SF_vars(WatcherLocks)
    /\ WF_vars(Deliver)
    /\ WF_vars(SignalsDelivered)

---------------------------------------------------------------------------
(* Claims C1 to C10: ApplyMonitorsConfig *)

\* this step is a run of apply_monitors_config; reply' holds the call and
\* its result, the unprimed variables the state it ran in
ApplyCall == reply = Idle /\ reply'.op = "ApplyMonitorsConfig"

\* the state right after a run of apply_monitors_config
Applied == reply.op = "ApplyMonitorsConfig"

StaleSerial == Err("InvalidArgs", "Wrong serial")

\* every file that was there is there with the lines it had
FilesKept == \A n \in DOMAIN files : n \in DOMAIN files' /\ files'[n] = files[n]

\* the monitor an entry names by its connector is in the list
Resolvable(entry, monitors) ==
    \E i \in DOMAIN monitors : monitors[i].description[1] = entry.monitors[1][1]

\* the monitor an entry names
ResolvedMonitor(entry, monitors) ==
    CHOOSE m \in {monitors[i] : i \in DOMAIN monitors} :
        m.description[1] = entry.monitors[1][1]

\* the rule an entry breaks first, in the order monitor, mode, scale,
\* transform; "none" when it passes all four
BrokenRule(entry, monitors) ==
    IF ~Resolvable(entry, monitors) THEN "monitor"
    ELSE LET m == ResolvedMonitor(entry, monitors)
             ids == {m.modes[i].id : i \in DOMAIN m.modes}
             md == CHOOSE x \in {m.modes[i] : i \in DOMAIN m.modes} :
                       x.id = entry.monitors[1][2]
         IN IF entry.monitors[1][2] \notin ids THEN "mode"
            ELSE IF entry.scale \notin {md.supported_scales[i] :
                                           i \in DOMAIN md.supported_scales}
                 THEN "scale"
            ELSE IF entry.transform \notin 0..7 THEN "transform"
            ELSE "none"

\* the rule broken by the first entry of the list that breaks one
RECURSIVE FirstBrokenRule(_, _)
FirstBrokenRule(entries, monitors) ==
    IF entries = <<>> THEN "none"
    ELSE IF BrokenRule(Head(entries), monitors) # "none"
         THEN BrokenRule(Head(entries), monitors)
         ELSE FirstBrokenRule(Tail(entries), monitors)

\* the rule a result reports as broken ("crash" for a panic)
ReportedRule(result) ==
    IF result = Ok THEN "none"
    ELSE IF result[1] = "Panic" THEN "crash"
    ELSE IF result[3] = "Monitor not found" THEN "monitor"
    ELSE IF result[3] \in {"Invalid position", "Invalid resolution / refresh rate"}
         THEN "mode"
    ELSE IF result[3] = "Invalid scale" THEN "scale"
    ELSE IF result[3] = "Invalid tranform" THEN "transform"
    ELSE "other"

\* C1: a call whose serial is not the store's returns the wrong-serial
\* error and leaves the store, every profile file and the bus as they were.
C1_StaleSerialRejected ==
    [][(ApplyCall /\ reply'.serial # manager.serial)
        => /\ reply'.result = StaleSerial
           /\ manager' = manager
           /\ files' = files
           /\ signals' = signals]_vars

\* C1 witness: a one-entry apply with a wrong serial was turned away while
\* the store held a monitor and the directory a profile.
C1_Witness ==
    /\ Applied
    /\ reply.serial # manager.serial
    /\ reply.method = 1
    /\ Len(reply.logical_monitors) = 1
    /\ reply.result = StaleSerial
    /\ manager.monitors # <<>>
    /\ DOMAIN files # {}

\* C2: a call that echoes the serial of a snapshot whose monitor or
\* logical-monitor list the store no longer holds, and that is answered, is
\* rejected as stale.
C2_StaleSnapshotRejected ==
    [][(/\ ApplyCall
        /\ reply'.result[1] \in {"Ok", "Err"}
        /\ client # None
        /\ reply'.serial = Unwrap(client).serial
        /\ \/ Unwrap(client).monitors # manager.monitors
           \/ Unwrap(client).logical_monitors # manager.logical_monitors)
        => reply'.result = StaleSerial]_vars

\* C3: a verify call that returns (Ok or an error) has changed no file, no
\* field of the store and sent no signal.
C3_VerifyChangesNothing ==
    [][(ApplyCall /\ reply'.method = 0 /\ reply'.result[1] \in {"Ok", "Err"})
        => /\ files' = files
           /\ manager' = manager
           /\ signals' = signals]_vars

\* C4: a non-verify call with the store's serial, all of whose entries
\* resolve and one of which breaks a validation rule, returns that rule's
\* error, writes no profile line and leaves the store unchanged.
C4_ApplyValidates ==
    [][(/\ ApplyCall
        /\ reply'.method # 0
        /\ reply'.serial = manager.serial
        /\ \A i \in DOMAIN reply'.logical_monitors :
               Resolvable(reply'.logical_monitors[i], manager.monitors)
        /\ FirstBrokenRule(reply'.logical_monitors, manager.monitors) # "none")
        => /\ reply'.result[1] = "Err"
           /\ ReportedRule(reply'.result)
                  = FirstBrokenRule(reply'.logical_monitors, manager.monitors)
           /\ manager' = manager
           /\ \A n \in DOMAIN files' :
                  files'[n] = <<>> \/ (n \in DOMAIN files /\ files'[n] = files[n])]_vars

\* C5: a verify call with the store's serial returns Ok exactly when no
\* entry breaks a rule, and otherwise the error of the first rule broken by
\* the first failing entry.
C5_VerifyResult ==
    [][(ApplyCall /\ reply'.method = 0 /\ reply'.serial = manager.serial)
        => ReportedRule(reply'.result)
               = FirstBrokenRule(reply'.logical_monitors, manager.monitors)]_vars

\* C6: a call with the store's serial and an entry whose connector is not in
\* the store returns the monitor-not-found error, without a panic, and
\* changes neither the store nor the profile directory.
C6_UnknownMonitorIsAnError ==
    [][(/\ ApplyCall
        /\ reply'.serial = manager.serial
        /\ \E i \in DOMAIN reply'.logical_monitors :
               ~Resolvable(reply'.logical_monitors[i], manager.monitors))
        => /\ reply'.result[1] = "Err"
           /\ ReportedRule(reply'.result) = "monitor"
           /\ manager' = manager
           /\ files' = files]_vars

\* a non-verify call has just returned Ok
AppliedOk == Applied /\ reply.method # 0 /\ reply.result = Ok

\* the profile that call wrote (the store's monitors are those it ran with)
WrittenProfile == files[profile_name(reply.logical_monitors, manager.monitors)]

\* the store's monitors that no entry of the call names, in store order
NotAccepted ==
    SelectSeqBy(manager.monitors,
                {m \in {manager.monitors[i] : i \in DOMAIN manager.monitors} :
                    \A j \in DOMAIN reply.logical_monitors :
                        m # ResolvedMonitor(reply.logical_monitors[j], manager.monitors)})

\* the display names in the disable directives of a profile, in order
RECURSIVE DisableNames(_)
DisableNames(lines) ==
    IF lines = <<>> THEN <<>>
    ELSE (IF Len(Head(lines)) = 3 THEN <<Head(lines)[2]>> ELSE <<>>)
         \o DisableNames(Tail(lines))

\* C7: after a successful non-verify apply, the store monitors that a
\* disable directive of the written profile names are exactly the store
\* monitors that no entry of the request resolves to.
C7_DisabledSetExact ==
    AppliedOk =>
        {m \in {manager.monitors[i] : i \in DOMAIN manager.monitors} :
            \E k \in DOMAIN DisableNames(WrittenProfile) :
                DisableNames(WrittenProfile)[k] = get_dpy_name(m)}
        = {NotAccepted[i] : i \in DOMAIN NotAccepted}

\* C8: a call sends MonitorsChanged once if it is a non-verify call that
\* returns Ok, and not at all otherwise.
C8_SignalPerApply ==
    [][ApplyCall
        => signals' = signals + (IF reply'.method # 0 /\ reply'.result = Ok
                                 THEN 1 ELSE 0)]_vars

\* C8 witness: a non-verify call returned Ok and one signal is on the bus.
C8_Witness == AppliedOk /\ signals = 1

\* C9: after a non-verify call that returns an error other than that of the
\* signal emission, every profile file that existed still has its lines.
C9_FailedApplyKeepsFiles ==
    [][(/\ ApplyCall
        /\ reply'.method # 0
        /\ reply'.result[1] = "Err"
        /\ reply'.result[2] # "ZBus")
        => FilesKept]_vars

\* C10: the store's properties are the startup defaults until a non-verify
\* call returns Ok, and change only in such a call, to the properties it
\* carries.
C10_PropertiesFollowSuccess ==
    [][(reply = Idle /\ reply' # Idle)
        => manager'.properties =
               IF reply'.op = "ApplyMonitorsConfig" /\ reply'.method # 0
                  /\ reply'.result = Ok
               THEN reply'.properties
               ELSE manager.properties]_vars

---------------------------------------------------------------------------
(* Claims C11 to C20: after the write, the watcher, the lock *)

\* the profile a call names, in the store it ran in
TargetName == profile_name(reply'.logical_monitors, manager.monitors)

\* C11: a non-verify call whose write succeeds and whose reload_kanshi or
\* sway query (or both) fails, the signal being taken by the bus, returns
\* Ok and sends one signal; the store keeps its two lists and the profile
\* written is in its file.
C11_ReloadAndRequeryNotFatal ==
    [][(/\ ApplyCall
        /\ reply'.method # 0
        /\ reply'.io \cap {"reload", "query"} # {}
        /\ "emit" \notin reply'.io)
        => /\ reply'.result = Ok
           /\ signals' = signals + 1
           /\ manager'.monitors = manager.monitors
           /\ manager'.logical_monitors = manager.logical_monitors
           /\ TargetName \in DOMAIN files'
           /\ files'[TargetName] = ProfileBuf(manager, reply'.logical_monitors)]_vars

\* C11 witness: reload_kanshi and the query both failed in a call that
\* returned Ok with its signal sent and its profile in the directory.
C11_Witness ==
    /\ AppliedOk
    /\ reply.io = {"reload", "query"}
    /\ signals = 1
    /\ WrittenProfile # <<>>

\* C12: no GetCurrentState call waits for the lock while the watcher holds
\* it over its query to sway.
C12_GetCurrentStateNeverWaitsForSway ==
    ~(threads.handler = "state_wait" /\ threads.watcher = "query")

\* C13: a non-verify call that returned Ok and is repeated at once, the
\* store's monitors being the same, and returns Ok again leaves every file
\* of the directory with the name and the lines it had.
C13_RepeatedApplySameProfile ==
    [][(/\ reply.op = "ApplyMonitorsConfig"
        /\ reply.method # 0
        /\ reply.result = Ok
        /\ reply'.op = "ApplyMonitorsConfig again"
        /\ reply'.result = Ok)
        => files' = files]_vars

\* C13 witness: a two-entry request was applied twice in a row and its
\* profile holds an enable line.
C13_Witness ==
    /\ reply.op = "ApplyMonitorsConfig again"
    /\ reply.method # 0
    /\ reply.result = Ok
    /\ Len(reply.logical_monitors) = 2
    /\ \E i \in DOMAIN WrittenProfile : Len(WrittenProfile[i]) = 12

\* the permutations of 1..n
EntryOrders(n) ==
    {p \in [1..n -> 1..n] : \A i, j \in 1..n : p[i] = p[j] => i = j}

Synced ==
    /\ manager.monitors = get_monitor_info(outputs).monitors
    /\ manager.logical_monitors = get_monitor_info(outputs).logical_monitors

\* C15: when a non-verify call whose sway query succeeded returns Ok, its
\* signal sent, the store holds the lists that query returned.
C15_RefreshedBeforeSignal ==
    [][(/\ ApplyCall
        /\ reply'.method # 0
        /\ reply'.result = Ok
        /\ "query" \notin reply'.io)
        => Synced']_vars

\* C16: once sway's outputs have stopped changing, and as long as the
\* watcher task lives, the store comes to hold sway's lists and keeps them.
C16_WatcherCatchesUp == <>[](watcher = "running" => Synced)

\* this step is a turn of the watcher's loop that got to its end
WatchTurn ==
    /\ reply = Idle
    /\ reply'.op = "watch_changes"
    /\ reply'.result[1] # "Panic"

\* some element sway reports is not found in the remembered sets: no element
\* there is equal to it and either hashes like it or collides with it
Novel ==
    LET display_info == get_monitor_info(outputs)
    IN \/ \E i \in DOMAIN display_info.monitors :
              \A m \in prev_monitor_set :
                  ~(/\ MonitorEq(m, display_info.monitors[i])
                    /\ (MonitorHash(m) = MonitorHash(display_info.monitors[i])
                        \/ hasher))
       \/ \E i \in DOMAIN display_info.logical_monitors :
              \A m \in prev_logical_monitor_set :
                  ~(/\ LogicalMonitorEq(m, display_info.logical_monitors[i])
                    /\ (LogicalMonitorHash(m)
                            = LogicalMonitorHash(display_info.logical_monitors[i])
                        \/ hasher))

\* C17: a turn of the watcher's loop whose query and emission succeed
\* replaces the store's lists by the queried ones and sends one signal if
\* some queried element is not found in the remembered sets, and otherwise
\* changes neither the store nor the sets and sends nothing; right after a
\* turn, a turn with the same query result would find nothing new.
C17_CycleEmitsOnNoveltyOnly ==
    /\ [][WatchTurn
           => IF Novel
              THEN /\ Synced'
                   /\ manager'.properties = manager.properties
                   /\ signals' = signals + 1
              ELSE /\ manager' = manager
                   /\ prev_monitor_set' = prev_monitor_set
                   /\ prev_logical_monitor_set' = prev_logical_monitor_set
                   /\ signals' = signals]_vars
    /\ []((reply.op = "watch_changes" /\ reply.result[1] # "Panic") => ~Novel)

\* C17 witness: a turn found nothing new although the store does not hold
\* what sway reports (a monitor has gone).
C17_Witness ==
    /\ reply.op = "watch_changes"
    /\ reply.result = <<"unchanged">>
    /\ ~Synced
    /\ prev_monitor_set # {}

\* C18: the watcher task is never terminated.
C18_WatcherNeverTerminates == watcher = "running"

\* the handler is between the serial check and its return, under the lock
InApply == threads.handler \in {"apply_paths", "apply_requery"}

\* the watcher is between taking the lock and the end of the loop body
InWatcher == threads.watcher = "query"

\* C19: the handler and the watcher are never both in their critical
\* sections, the one that is in holds the lock, and while the handler is
\* between its serial check and its return no step but its own changes the
\* store or the profile directory.
C19_CriticalSectionsExclusive ==
    /\ [](/\ ~(InApply /\ InWatcher)
          /\ (InApply => threads.lock = Some("handler"))
          /\ (InWatcher => threads.lock = Some("watcher")))
    /\ [][(InApply /\ threads'.handler = threads.handler)
           => (manager' = manager /\ files' = files)]_vars

\* C19 witness: the watcher waits for the lock while a non-verify call that
\* has written its profile awaits sway's answer.
C19_Witness ==
    /\ threads.handler = "apply_requery"
    /\ threads.watcher = "wait"
    /\ threads.lock = Some("handler")

\* every logical monitor of the store names a monitor of the store
Referenced ==
    \A i \in DOMAIN manager.logical_monitors :
        \E j \in DOMAIN manager.monitors :
            manager.monitors[j].description
                = manager.logical_monitors[i].monitors[1]

\* C20: every logical monitor of the store carries the (connector, make,
\* model, serial) of a monitor of the store, and a step that changes one
\* of the two lists sets both to the lists of one sway query.
C20_LogicalMonitorsReferenceMonitors ==
    /\ []Referenced
    /\ [][(\/ manager'.monitors # manager.monitors
           \/ manager'.logical_monitors # manager.logical_monitors)
           => Synced']_vars

\* C20 witness: the store holds two monitors, one of them switched off, and
\* the logical monitor of the other.
C20_Witness ==
    /\ Len(manager.monitors) = 2
    /\ Len(manager.logical_monitors) = 1
    /\ manager.logical_monitors[1].monitors[1] = manager.monitors[2].description

\* the transform codes the answered apply has put into its profile through
\* to_sway (save_kanshi skips an entry whose mode is unknown)
EncodedCodes ==
    IF AppliedOk
    THEN {reply.logical_monitors[i].transform : i \in
             {j \in DOMAIN reply.logical_monitors :
                 /\ from_u32(reply.logical_monitors[j].transform) # None
                 /\ get_modestr(reply.logical_monitors[j],
                                ResolvedMonitor(reply.logical_monitors[j],
                                                manager.monitors)) # None}}
    ELSE {}

\* the transform texts of sway whose decoding by from_sway the store holds
DecodedTexts ==
    {Unwrap(outputs[i].transform) : i \in
        {j \in DOMAIN outputs :
            /\ outputs[j].transform # None
            /\ \E k \in DOMAIN manager.logical_monitors :
                   /\ manager.logical_monitors[k].monitors[1][1] = outputs[j].name
                   /\ manager.logical_monitors[k].transform
                          = from_sway(outputs[j].transform)}}

\* C21: to_sway and from_sway are inverse to each other: a transform code
\* that an apply wrote into a profile decodes from the written text to the
\* same code, and a transform text of sway that the store holds decoded
\* encodes to the same text.
C21_TransformRoundTrip ==
    /\ \A c \in EncodedCodes : from_sway(Some(to_sway(c))) = c
    /\ \A t \in DecodedTexts : to_sway(from_sway(Some(t))) = t

\* C22: the serial of the store is 0 in every state, whatever calls and
\* watcher cycles have run, and a call is turned away with the wrong-serial
\* error exactly when the serial it carries is not 0.
C22_SerialAlwaysZero ==
    /\ [](manager.serial = 0)
    /\ [][ApplyCall => (reply'.result = StaleSerial <=> reply'.serial # 0)]_vars

\* C22 witness: after a watcher cycle that stored monitors and a
\* GetCurrentState call, a non-verify apply has returned Ok and changed the
\* properties of the store, whose serial is 0.
C22_Witness ==
    /\ AppliedOk
    /\ manager.serial = 0
    /\ manager.monitors # <<>>
    /\ manager.properties # NewDisplayManagerProperties
    /\ client = Some([manager EXCEPT !.properties = NewDisplayManagerProperties])
    /\ signals = 1

\* the output directives of the written profile that name monitor m
DirectivesOf(m) ==
    {k \in DOMAIN WrittenProfile :
        /\ Len(WrittenProfile[k]) > 1
        /\ WrittenProfile[k][1] = "output"
        /\ WrittenProfile[k][2] = get_dpy_name(m)}

\* some entry of the answered call names the connector of monitor m
ReferencedByRequest(m) ==
    \E j \in DOMAIN reply.logical_monitors :
        reply.logical_monitors[j].monitors[1][1] = m.description[1]

\* C23: in the profile written by a successful non-verify apply every
\* monitor of the store is named by exactly one output directive, an
\* enable directive if an entry of the request names it and a disable
\* directive otherwise.
C23_OneDirectivePerMonitor ==
    AppliedOk =>
        \A i \in DOMAIN manager.monitors :
            /\ Cardinality(DirectivesOf(manager.monitors[i])) = 1
            /\ \A k \in DirectivesOf(manager.monitors[i]) :
                   LET line == WrittenProfile[k]
                   IN IF ReferencedByRequest(manager.monitors[i])
                      THEN line[Len(line)] = "enable"
                      ELSE line[Len(line)] = "disable"

Tasks == {"server", "handler", "watcher"}

\* the Mutexes a task holds
LocksHeld(task) == {l \in {"lock", "sway", "bus"} : threads[l] = Some(task)}

\* where a task stands in its code
At(task) == threads[task]

\* the Mutex a task is waiting for in lock().await, or "none"
Wanted(task) ==
    IF \/ task = "server" /\ At(task) = "start"
       \/ task = "handler" /\ At(task) \in {"state_wait", "apply_wait"}
       \/ task = "watcher" /\ At(task) = "wait"
    THEN "lock"
    ELSE IF \/ task = "server" /\ At(task) = "locked"
            \/ task = "handler" /\ At(task) = "apply_sway_wait"
            \/ task = "watcher" /\ At(task) = "query"
    THEN "sway"
    ELSE IF At(task) = "bus_wait" \/ At(task) = "apply_bus_wait"
    THEN "bus"
    ELSE "none"

\* store lock, then compositor-connection lock, then bus-connection lock
Rank(l) == CASE l = "lock" -> 1 [] l = "sway" -> 2 [] l = "bus" -> 3

\* a task asks only for a Mutex that comes after all those it holds
LockOrderKept ==
    \A t \in Tasks :
        Wanted(t) # "none" =>
            \A held \in LocksHeld(t) : Rank(held) < Rank(Wanted(t))

\* a task that is out of its request, cycle or startup holds no Mutex
GuardsDropped ==
    /\ At("handler") = "idle" => LocksHeld("handler") = {}
    /\ At("watcher") \in {"unspawned", "sleep", "dead"} => LocksHeld("watcher") = {}
    /\ At("server") \in {"done", "exited"} => LocksHeld("server") = {}

\* some tasks wait, each for a Mutex that another of them holds
Deadlocked ==
    \E S \in SUBSET Tasks :
        /\ S # {}
        /\ \A t \in S :
               /\ Wanted(t) # "none"
               /\ \E u \in S : threads[Wanted(t)] = Some(u)

\* C24: every task asks for the Mutexes in the order manager, sway
\* connection, ZBUS_CONNECTION; a handler that has returned, by success,
\* error or panic, holds none of them; no set of tasks waits for one
\* another; and a call or a watcher cycle that waits for the manager lock
\* gets it.
C24_LockOrderNoDeadlock ==
    /\ [](LockOrderKept /\ GuardsDropped /\ ~Deadlocked)
    /\ (At("handler") \in {"state_wait", "apply_wait"})
           ~> (At("handler") \notin {"state_wait", "apply_wait"})
    /\ (At("watcher") = "wait") ~> (At("watcher") # "wait")

\* C24 witness: the watcher waits for the manager lock while the handler of
\* an apply holds it together with ZBUS_CONNECTION.
C24_Witness ==
    /\ At("watcher") = "wait"
    /\ At("handler") = "apply_emit"
    /\ LocksHeld("handler") = {"lock", "bus"}

===========================================================================
